---- MODULE Spec2Model ----
(***************************************************************************)
(* Model of src/src/varint.rs: varint_length, read_le_varint (with the     *)
(* narrowing of VarintReader::read_le_varint) and write_le_varint.         *)
(*                                                                         *)
(* TLC's integers are 32 bits wide, so a u64 (and every narrower unsigned  *)
(* type) is represented by the set of the positions of its one bits:       *)
(* 0 is {}, 128 is {7}, 2^64 - 1 is 0..63.  Shifts, ors and comparisons    *)
(* are computed on that representation with the width of the Rust type.    *)
(* A byte (u8) is an integer in 0..255.                                    *)
(***************************************************************************)
EXTENDS Integers, Sequences, FiniteSets, TLC

VARIABLES
    pc,      \* "idle", "write" (inside write_le_varint), "read" (inside read_le_varint), "done"
    chain,   \* the calls made so far, in order: "len", "write", "read"
    W,       \* bit width of the type parameter V of the current call
    arg,     \* the value passed to varint_length / write_le_varint
    x,       \* local x of the running function
    i,       \* local i of the running function
    shift,   \* local shift of read_le_varint
    sink,    \* bytes the Writer has accepted
    cap,     \* size of the buffer under the Writer
    wcalls,  \* number of write_u8 calls the Writer has received
    src,     \* bytes of the buffer under the Reader, as far as they are determined
    open,    \* TRUE while the Reader's content beyond src is still the environment's choice
    pos,     \* read position of the Reader
    srcerr,  \* the failure the Reader reported last, NoErr when none
    lres,    \* result of varint_length
    wres,    \* result of write_le_varint
    rres     \* result of VarintReader::read_le_varint

vars == <<pc, chain, W, arg, x, i, shift, sink, cap, wcalls, src, open, pos, srcerr, lres, wres, rres>>

----------------------------------------------------------------------------
(* Bounds of the model *)

\* longest source the environment supplies
MaxBytes == 11
\* largest buffer put under the Writer
MaxCap == 10

----------------------------------------------------------------------------
(* Unsigned integers as sets of bit positions *)

\* width of the accumulator type u64
U64Bits == 64

\* widths of the types implementing Varint (uint is 32 or 64 bits wide)
Widths == {8, 16, 32, 64}

RECURSIVE Pow2(_)
Pow2(k) == IF k = 0 THEN 1 ELSE 2 * Pow2(k - 1)

\* the one bits of a small natural number (a byte, a literal)
BitsOf(n) == {k \in 0..15 : (n \div Pow2(k)) % 2 = 1}

\* the number a set of bit positions below 16 stands for
RECURSIVE NatOf(_)
NatOf(s) == IF s = {} THEN 0
            ELSE LET k == CHOOSE k \in s : TRUE IN Pow2(k) + NatOf(s \ {k})

\* `x >= 0b1000_0000` on a u64
\* (slip: compares with 256; used to test that the properties below depend on the next definition)
Ge128Mut(v) == \E k \in v : k >= 8
Ge128(v) == \E k \in v : k >= 7

\* `x >>= 7` on a u64
\* (slip: shifts by 8; used to test that the properties below depend on the next definition)
Shr7Mut(v) == {k - 8 : k \in {j \in v : j >= 8}}
Shr7(v) == {k - 7 : k \in {j \in v : j >= 7}}

\* `x as u8`: the low eight bits
AsU8(v) == NatOf({k \in v : k < 8})

\* `x as u8 | 0b1000_0000`
\* (slip: continuation bit not set; used to test that the properties below depend on the next definition)
ContByteMut(v) == AsU8(v) % 128
ContByte(v) == (AsU8(v) % 128) + 128

\* `x.to_u64()`: zero extension of a value of a type of width w
ToU64(v, w) == {k \in 0..(U64Bits - 1) : k < w /\ k \in v}

\* `num::from_u64(x)` into a type of width w: None when x is out of range
\* (slip: a truncating cast instead of a checked conversion; used to test that the properties below depend on the next definition)
FromU64Mut(v, w) == [some |-> TRUE, val |-> {k \in v : k < w}]
FromU64(v, w) == IF \A k \in v : k < w
                 THEN [some |-> TRUE, val |-> v]
                 ELSE [some |-> FALSE, val |-> {}]

\* `(b as u64) << s`: the possible results.  A shift by 64 or more is not
\* defined for u64; builds give 0 or shift by s modulo 64.
ShlU64(b, s) ==
    IF s < U64Bits
    THEN {{k + s : k \in {j \in BitsOf(b) : j + s < U64Bits}}}
    ELSE {{}, {k + (s % U64Bits) : k \in {j \in BitsOf(b) : j + (s % U64Bits) < U64Bits}}}

----------------------------------------------------------------------------
(* varint_length *)

RECURSIVE LengthLoop(_, _)
LengthLoop(v, n) == IF Ge128(v) THEN LengthLoop(Shr7(v), n + 1) ELSE n + 1

\* (slip: returns i instead of i + 1; used to test that the properties below depend on the next definition)
VarintLengthMut(v) == LengthLoop(v, 0) - 1
VarintLength(v) == LengthLoop(v, 0)

\* Varint::varlen for a type of width w
Varlen(v, w) == VarintLength(ToU64(v, w))

----------------------------------------------------------------------------
(* Results *)

OWERFLOW_ERROR == [kind |-> "InvalidInput", desc |-> "owerflow"]
EndOfFile == [kind |-> "EndOfFile", desc |-> "end of file"]
OtherIoError == [kind |-> "OtherIoError", desc |-> "Trying to write past end of buffer"]

NoValue == {}
NoErr == [kind |-> "", desc |-> ""]

RNone == [tag |-> "None", val |-> NoValue, err |-> NoErr]
ROk(v) == [tag |-> "Ok", val |-> v, err |-> NoErr]
RErr(e) == [tag |-> "Err", val |-> NoValue, err |-> e]

WNone == [tag |-> "None", val |-> 0, err |-> NoErr]
WOk(n) == [tag |-> "Ok", val |-> n, err |-> NoErr]
WErr(e) == [tag |-> "Err", val |-> 0, err |-> e]

----------------------------------------------------------------------------
(* Inputs *)

\* the values handed to varint_length and write_le_varint: 0, and around
\* every power of two of a u64: 2^k - 1, 2^k, 2^k + 1, 2^k + 300 (mod 2^64)
Values ==
    {{}} \cup {0..(k - 1) : k \in 1..U64Bits}
         \cup {{k} : k \in 0..(U64Bits - 1)}
         \cup {{0, k} : k \in 0..(U64Bits - 1)}
         \cup {{k} \cup BitsOf(300) : k \in 0..(U64Bits - 1)}

\* the values of a type of width w
ValuesOf(w) == {v \in Values : \A k \in v : k < w}

\* the bytes the environment puts at position p of a source
EnvBytes(p) == IF p = 0 THEN {0, 1, 2, 127, 128, 172, 255}
                        ELSE {0, 1, 2, 127, 128, 255}

\* the failures a Reader reports
SourceErrors == {EndOfFile, OtherIoError}

----------------------------------------------------------------------------
(* The collaborators: Writer::write_u8 and Reader::read_byte *)

\* BufWriter over a buffer of c bytes holding s: the write succeeds while there is room
WriteFits(s, c) == Len(s) < c

\* Reader::read_byte: the possible outcomes at position p of source s
ReadOutcomes(s, p, o) ==
    IF p < Len(s)
    THEN {[ok |-> TRUE, b |-> s[p + 1], err |-> NoErr]}
    ELSE IF o /\ Len(s) < MaxBytes
         THEN {[ok |-> TRUE, b |-> b, err |-> NoErr] : b \in EnvBytes(p)}
              \cup {[ok |-> FALSE, b |-> 0, err |-> e] : e \in SourceErrors}
         ELSE {[ok |-> FALSE, b |-> 0, err |-> EndOfFile]}

----------------------------------------------------------------------------
(* write_le_varint *)

\* `try!(writer.write_u8(..))` on a failure e: the function returns Err(e)
\* (slip: the sink's failure replaced by the overflow error; used to test that the properties below depend on the next definition)
OnWriteErrMut(e) == WErr(OWERFLOW_ERROR)
OnWriteErr(e) == WErr(e)

----------------------------------------------------------------------------
(* read_le_varint *)

\* `try!(reader.read_byte())` on a failure e: the function returns Err(e)
\* (slip: the source's failure replaced by the overflow error; used to test that the properties below depend on the next definition)
OnReadErrMut(e) == RErr(OWERFLOW_ERROR)
OnReadErr(e) == RErr(e)

\* `b < 0b1000_0000`
\* (slip: 0x7F taken for a continuation byte; used to test that the properties below depend on the next definition)
IsTerminalMut(b) == b < 127
IsTerminal(b) == b < 128

\* `(i == 9 && b > 1) || i >= 10`
\* (slip: no check of i >= 10; used to test that the properties below depend on the next definition)
OverflowsMut(n, b) == n = 9 /\ b > 1
Overflows(n, b) == (n = 9 /\ b > 1) \/ n >= 10

\* `b as u64 & 0b0111_1111`
\* (slip: continuation bit not masked off; used to test that the properties below depend on the next definition)
PayloadMut(b) == b
Payload(b) == b % 128

\* the closure of VarintReader::read_le_varint, on Ok(v) of the u64 decoder
Narrow(v, w) == LET r == FromU64(v, w)
                IN  IF r.some THEN ROk(r.val) ELSE RErr(OWERFLOW_ERROR)

----------------------------------------------------------------------------
(* The state machine *)

Init ==
    /\ pc = "idle"
    /\ chain = <<>>
    /\ W = U64Bits
    /\ arg = {}
    /\ x = {}
    /\ i = 0
    /\ shift = 0
    /\ sink = <<>>
    /\ cap = 0
    /\ wcalls = 0
    /\ src = <<>>
    /\ open = FALSE
    /\ pos = 0
    /\ srcerr = NoErr
    /\ lres = 0
    /\ wres = WNone
    /\ rres = RNone

\* a call of varlen on a value of a type of width w
LenCall ==
    /\ pc = "idle" /\ chain = <<>>
    /\ \E w \in Widths : \E v \in ValuesOf(w) :
        /\ W' = w
        /\ arg' = v
        /\ lres' = Varlen(v, w)
    /\ pc' = "done"
    /\ chain' = <<"len">>
    /\ UNCHANGED <<x, i, shift, sink, cap, wcalls, src, open, pos, srcerr, wres, rres>>

\* VarintWriter::write_le_varint(x) on a BufWriter over c bytes: entry of write_le_varint
WriteCall ==
    /\ pc = "idle" /\ chain = <<>>
    /\ \E w \in Widths : \E v \in ValuesOf(w) : \E c \in 0..MaxCap :
        /\ W' = w
        /\ arg' = v
        /\ x' = ToU64(v, w)
        /\ cap' = c
    /\ i' = 0
    /\ sink' = <<>>
    /\ wcalls' = 0
    /\ wres' = WNone
    /\ pc' = "write"
    /\ chain' = <<"write">>
    /\ UNCHANGED <<shift, src, open, pos, srcerr, lres, rres>>

\* one iteration of `while x >= 0b1000_0000`
WriteLoop ==
    /\ pc = "write"
    /\ Ge128(x)
    /\ wcalls' = wcalls + 1
    /\ IF WriteFits(sink, cap)
       THEN /\ sink' = Append(sink, ContByte(x))
            /\ x' = Shr7(x)
            /\ i' = i + 1
            /\ UNCHANGED <<pc, wres>>
       ELSE /\ wres' = OnWriteErr(OtherIoError)
            /\ pc' = "done"
            /\ UNCHANGED <<sink, x, i>>
    /\ UNCHANGED <<chain, W, arg, shift, cap, src, open, pos, srcerr, lres, rres>>

\* the write after the loop and the return
WriteLast ==
    /\ pc = "write"
    /\ ~Ge128(x)
    /\ wcalls' = wcalls + 1
    /\ IF WriteFits(sink, cap)
       THEN /\ sink' = Append(sink, AsU8(x))
            /\ wres' = WOk(i + 1)
       ELSE /\ wres' = OnWriteErr(OtherIoError)
            /\ UNCHANGED sink
    /\ pc' = "done"
    /\ UNCHANGED <<chain, W, arg, x, i, shift, cap, src, open, pos, srcerr, lres, rres>>

\* entry of read_le_varint
EnterRead ==
    /\ x' = {}
    /\ shift' = 0
    /\ i' = 0
    /\ pos' = 0
    /\ srcerr' = NoErr
    /\ rres' = RNone
    /\ pc' = "read"

\* read_le_varint::<V> on a source whose content is the environment's
ReadCall ==
    /\ pc = "idle" /\ chain = <<>>
    /\ \E w \in Widths : W' = w
    /\ src' = <<>>
    /\ open' = TRUE
    /\ EnterRead
    /\ chain' = <<"read">>
    /\ UNCHANGED <<arg, sink, cap, wcalls, lres, wres>>

\* read_le_varint::<V> on a BufReader over the buffer a successful write filled
\* (the buffer's bytes past the written ones are its initial zeros)
ReadBackCall ==
    /\ pc = "done" /\ chain = <<"write">>
    /\ wres.tag = "Ok"
    /\ src' = sink \o [k \in 1..(cap - Len(sink)) |-> 0]
    /\ open' = FALSE
    /\ EnterRead
    /\ chain' = <<"write", "read">>
    /\ UNCHANGED <<W, arg, sink, cap, wcalls, lres, wres>>

\* one iteration of `for i in count(0u, 1)`
ReadByte ==
    /\ pc = "read"
    /\ \E r \in ReadOutcomes(src, pos, open) :
        IF ~r.ok
        THEN /\ srcerr' = r.err
             /\ rres' = OnReadErr(r.err)
             /\ pc' = "done"
             /\ UNCHANGED <<src, pos, x, shift, i>>
        ELSE /\ srcerr' = NoErr
             /\ src' = IF pos < Len(src) THEN src ELSE Append(src, r.b)
             /\ pos' = pos + 1
             /\ IF IsTerminal(r.b)
                THEN /\ IF Overflows(i, r.b)
                        THEN rres' = RErr(OWERFLOW_ERROR)
                        ELSE \E t \in ShlU64(r.b, shift) : rres' = Narrow(x \cup t, W)
                     /\ pc' = "done"
                     /\ UNCHANGED <<x, shift, i>>
                ELSE /\ \E t \in ShlU64(Payload(r.b), shift) : x' = x \cup t
                     /\ shift' = shift + 7
                     /\ i' = i + 1
                     /\ UNCHANGED <<pc, rres>>
    /\ UNCHANGED <<chain, W, arg, sink, cap, wcalls, open, lres, wres>>

\* write_le_varint of the value a read_le_varint from the environment returned,
\* on a BufWriter with room for any varint
ReEncodeCall ==
    /\ pc = "done" /\ chain = <<"read">>
    /\ rres.tag = "Ok"
    /\ arg' = rres.val
    /\ x' = ToU64(rres.val, W)
    /\ cap' = MaxCap
    /\ i' = 0
    /\ sink' = <<>>
    /\ wcalls' = 0
    /\ wres' = WNone
    /\ pc' = "write"
    /\ chain' = <<"read", "write">>
    /\ UNCHANGED <<W, shift, src, open, pos, srcerr, lres, rres>>

Next ==
    \/ LenCall
    \/ WriteCall
    \/ WriteLoop
    \/ WriteLast
    \/ ReadCall
    \/ ReadBackCall
    \/ ReadByte
    \/ ReEncodeCall

Spec == Init /\ [][Next]_vars

\* the decode loop is synchronous code: once entered it keeps taking steps
FairSpec == Spec /\ WF_vars(ReadByte)

----------------------------------------------------------------------------
(* Vocabulary of the properties, defined on bit positions and byte         *)
(* sequences directly, without the operators of the code                   *)

\* (v >> 7g) & 0x7F
Group(v, g) == NatOf({k - 7 * g : k \in {j \in v : 7 * g <= j /\ j < 7 * g + 7}})

\* the least n >= 1 with v < 2^(7n)
MinLen(v) == CHOOSE n \in 1..10 :
                /\ \A k \in v : k < 7 * n
                /\ n = 1 \/ \E k \in v : k >= 7 * (n - 1)

\* sum over j < n of (low 7 bits of byte j) * 2^(7j), without wrap-around
Unwrapped(s, n) == UNION {{7 * (j - 1) + k : k \in BitsOf(s[j] % 128)} : j \in 1..n}

\* index of the first byte of s with the continuation bit clear
FirstTerminal(s) == (CHOOSE j \in 1..Len(s) : s[j] < 128 /\ \A h \in 1..(j - 1) : s[h] >= 128) - 1

\* ceil(w / 7) - 1
MaxByteIndex(w) == ((w + 6) \div 7) - 1

AllOnes(n) == 0..(n - 1)

LastCall == IF chain = <<>> THEN "" ELSE chain[Len(chain)]

WriteReturned == pc = "done" /\ LastCall = "write"

ReadReturned == rres.tag # "None"

\* the read_le_varint call returned after consuming a byte with the continuation bit clear
EndedOnTerminal == ReadReturned /\ pos > 0 /\ src[pos] < 128

Overflowed == rres = RErr(OWERFLOW_ERROR)

----------------------------------------------------------------------------
(* The claims *)

\* C1 (round trip): a value written by write_le_varint into a buffer with
\* enough room and read back from that buffer with read_le_varint at the same
\* type comes back as Ok of the same value.
RoundTrip ==
    (pc = "done" /\ chain = <<"write", "read">>) => rres = ROk(arg)

RoundTripWitness ==
    /\ pc = "done" /\ chain = <<"write", "read">>
    /\ W = 64 /\ arg = AllOnes(64) /\ Len(sink) = 10
    /\ rres = ROk(arg)

\* C2 (encoder wire format): on a sink with room, write_le_varint appends
\* exactly n bytes, n the least integer >= 1 with x < 2^(7n); byte g carries
\* (x >> 7g) & 0x7F in its low 7 bits, bit 7 set exactly for g < n - 1; and the
\* call returns Ok(n).
EncoderWireFormat ==
    (WriteReturned /\ cap >= MinLen(arg)) =>
        LET n == MinLen(arg)
        IN  /\ wres = WOk(n)
            /\ Len(sink) = n
            /\ wcalls = n
            /\ \A g \in 0..(n - 1) :
                /\ sink[g + 1] % 128 = Group(arg, g)
                /\ (sink[g + 1] >= 128) <=> (g < n - 1)

EncoderWireFormatWitness ==
    /\ WriteReturned /\ chain = <<"write">>
    /\ W = 32 /\ arg = BitsOf(300) /\ cap >= 2
    /\ sink = <<172, 2>> /\ wres = WOk(2)

\* C3 (minimality): the number of bytes write_le_varint emits and returns is
\* varlen of the value, the last byte has the continuation bit clear, and for
\* a value >= 128 the last byte is not zero.
Minimality ==
    (WriteReturned /\ wres.tag = "Ok") =>
        /\ Len(sink) = Varlen(arg, W)
        /\ wres.val = Varlen(arg, W)
        /\ sink[Len(sink)] < 128
        /\ (\E k \in arg : k >= 7) => sink[Len(sink)] # 0

MinimalityWitness ==
    /\ WriteReturned /\ wres = WOk(2)
    /\ W = 8 /\ arg = {7}
    /\ sink = <<128, 1>>

\* C4 as claimed (per-width index check): a terminal byte at an index above
\* maxByteIndex = ceil(W/7) - 1, or at maxByteIndex with a payload
\* >= 2^(W - 7 * maxByteIndex), always gives the overflow error.
PerWidthIndexCheck ==
    EndedOnTerminal =>
        LET k == pos - 1
            m == MaxByteIndex(W)
        IN  (k > m \/ (k = m /\ src[pos] >= Pow2(W - 7 * m))) => Overflowed

\* C4 as amended: the overflow error is returned when the terminal byte is at
\* index >= 10, or at maxByteIndex with a payload >= 2^(W - 7 * maxByteIndex),
\* or above maxByteIndex with some payload bit set at a position >= W; an input
\* whose terminal byte is above maxByteIndex and at most 9, with no payload bit
\* at a position >= W, is decoded to Ok.
OverflowRule ==
    EndedOnTerminal =>
        LET k == pos - 1
            m == MaxByteIndex(W)
            high == \E j \in Unwrapped(src, pos) : j >= W
        IN  /\ k >= 10 => Overflowed
            /\ (k = m /\ src[pos] >= Pow2(W - 7 * m)) => Overflowed
            /\ (k > m /\ high) => Overflowed
            /\ (k > m /\ k <= 9 /\ ~high) => rres.tag = "Ok"

OverflowRuleWitness ==
    /\ EndedOnTerminal
    /\ W = 8 /\ src = <<128, 128, 0>> /\ pos = 3
    /\ rres = ROk({})

\* C5 (no silent truncation): with V the sum of the payloads of the bytes up
\* to the terminal one, computed without wrap-around, V > 2^W - 1 gives the
\* overflow error and Ok(v) implies v = V; in particular
\* decode<u64>([0xFF x9, 0x01]) = Ok(2^64 - 1), and decode<u64>([0xFF x9, 0x7F])
\* and decode<u8>([0xAC, 0x02]) are overflow errors.
NoSilentTruncation ==
    EndedOnTerminal =>
        LET V == Unwrapped(src, pos)
        IN  /\ (\E k \in V : k >= W) => Overflowed
            /\ rres.tag = "Ok" => rres.val = V
            /\ (W = 64 /\ src = <<255, 255, 255, 255, 255, 255, 255, 255, 255, 1>>)
                    => rres = ROk(AllOnes(64))
            /\ (W = 64 /\ src = <<255, 255, 255, 255, 255, 255, 255, 255, 255, 127>>)
                    => Overflowed
            /\ (W = 8 /\ src = <<172, 2>>) => Overflowed

NoSilentTruncationWitness ==
    /\ EndedOnTerminal /\ pos = 10
    /\ W = 64 /\ src = <<255, 255, 255, 255, 255, 255, 255, 255, 255, 127>>
    /\ Overflowed

\* C6 as claimed (canonical form): re-encoding the value a successful decode
\* returned reproduces the decoded byte sequence.
CanonicalForm ==
    (pc = "done" /\ chain = <<"read", "write">>) => sink = src

\* C6 as amended: re-encoding the value v a successful decode of s returned
\* succeeds and gives the minimal encoding of v, which is never longer than s
\* and is s exactly when s is a single byte or its terminal byte is not zero;
\* a sequence padded with zero groups decodes to the value of its minimal form.
ReEncodeMinimal ==
    (pc = "done" /\ chain = <<"read", "write">>) =>
        /\ wres = WOk(MinLen(rres.val))
        /\ Len(sink) = MinLen(rres.val)
        /\ Len(sink) <= Len(src)
        /\ Unwrapped(sink, Len(sink)) = rres.val
        /\ (sink = src) <=> (Len(src) = 1 \/ src[Len(src)] # 0)

ReEncodeMinimalWitness ==
    /\ pc = "done" /\ chain = <<"read", "write">>
    /\ src = <<128, 0>> /\ rres = ROk({})
    /\ sink = <<0>>

\* C7 as claimed (bytes consumed): a call that ends on a terminal byte has
\* advanced the source by k + 1, k the index of the first byte with the
\* continuation bit clear, and that number is between 1 and 10.
ConsumedOneToTen ==
    EndedOnTerminal =>
        /\ pos = FirstTerminal(src) + 1
        /\ pos >= 1 /\ pos <= 10

\* C7 as amended: a call that ends on a terminal byte has advanced the source
\* by exactly k + 1 >= 1, leaving every later byte unread; the number is at
\* most 10 when the result is Ok, and a call that consumed more than 10 bytes
\* returns the overflow error.
ConsumedExactly ==
    EndedOnTerminal =>
        /\ pos = FirstTerminal(src) + 1
        /\ pos >= 1
        /\ rres.tag = "Ok" => pos <= 10
        /\ pos > 10 => Overflowed

ConsumedExactlyWitness ==
    /\ EndedOnTerminal
    /\ pos = 11 /\ FirstTerminal(src) = 10
    /\ Overflowed

\* C8 (sink exhaustion): with a capacity c below varlen of the value,
\* write_le_varint returns the sink's I/O error, after c + 1 write_u8 calls,
\* and the sink holds exactly the first c bytes of the encoding.
SinkExhaustion ==
    (WriteReturned /\ cap < Varlen(arg, W)) =>
        /\ wres = WErr(OtherIoError)
        /\ wcalls = cap + 1
        /\ Len(sink) = cap
        /\ \A g \in 0..(cap - 1) : sink[g + 1] = Group(arg, g) + 128

SinkExhaustionWitness ==
    /\ WriteReturned
    /\ W = 32 /\ arg = {7} /\ cap = 1
    /\ sink = <<128>> /\ wres = WErr(OtherIoError)

\* C9 (length calculator): varint_length(v) is the least n >= 1 with
\* v < 2^(7n), in 1..10, with varint_length(0) = 1, varint_length(127) = 1,
\* varint_length(128) = 2 and varint_length(2^64 - 1) = 10.
LengthCalculator ==
    chain = <<"len">> =>
        /\ lres = MinLen(arg)
        /\ lres \in 1..10
        /\ arg = {} => lres = 1
        /\ arg = AllOnes(7) => lres = 1
        /\ arg = {7} => lres = 2
        /\ arg = AllOnes(64) => lres = 10

LengthCalculatorWitness ==
    /\ chain = <<"len">>
    /\ W = 64 /\ arg = AllOnes(64)
    /\ lres = 10

\* C10 (source exhaustion): when the source fails before a byte with the
\* continuation bit clear was read, the call returns the source's failure
\* unchanged, never the overflow error nor Ok, however many continuation bytes
\* were read; and the decode loop always ends with a result.
ExhaustionPropagated ==
    (ReadReturned /\ ~EndedOnTerminal) =>
        /\ srcerr # NoErr
        /\ rres = RErr(srcerr)
        /\ ~Overflowed
        /\ \A j \in 1..pos : src[j] >= 128

SourceExhaustion ==
    /\ []ExhaustionPropagated
    /\ (pc = "read") ~> (pc = "done" /\ rres.tag \in {"Ok", "Err"})

SourceExhaustionWitness ==
    /\ ReadReturned /\ ~EndedOnTerminal
    /\ pos >= 10
    /\ rres = RErr(EndOfFile)

====
